---- MODULE Spec2Model ----
(***************************************************************************)
(* Model of the image processing pipeline of imgopti:                      *)
(*   - calculateDimensions and processImage (js/modules/imageProcessor.js) *)
(*   - findOptimalQuality and autoOptimize (js/modules/smartCompression.js)*)
(*   - the file queue, processAllFiles and processSingleFile (js/app.js,    *)
(*     js/modules/stateManager.js)                                         *)
(*   - the encoder entry points, createResultObject, generateOutputFilename*)
(*     and calculateSavings                                                *)
(* JavaScript numbers are modelled as exact rationals num/den; Math.round  *)
(* is round-half-up on such a quotient.                                    *)
(***************************************************************************)
EXTENDS Integers, Sequences, FiniteSets, TLC

VARIABLES dim, img, qs, batch, pipe, call

vars == <<dim, img, qs, batch, pipe, call>>

(***************************************************************************)
(* Bounds of the model                                                     *)
(***************************************************************************)
\* source dimensions 1..MaxSrc are enumerated besides the named sizes
MaxSrc == 3
\* requested widths/heights 0..MaxReq are enumerated besides the named ones
MaxReq == 3
\* largest intermediate dimension for which the planner is evaluated
MaxPlanned == 60000

(***************************************************************************)
(* JavaScript values                                                       *)
(***************************************************************************)
\* null / undefined: the initial settings.width and settings.height
Null == 0 - 1

\* truthiness of a number-or-null: null, undefined, NaN and 0 are falsy
Truthy(x) == x # Null /\ x # 0

\* numeric conversion of a number-or-null in an arithmetic expression whose
\* result is only tested for truthiness (null -> 0, undefined -> NaN, both falsy)
ToNumber(x) == IF x = Null THEN 0 ELSE x

\* Math.round(num / den) for den > 0: the nearest integer, a half rounds up
\* variant: Math.floor in place of Math.round
RoundMutant(num, den) == num \div den

Round(num, den) == (2 * num + den) \div (2 * den)

Max(a, b) == IF a >= b THEN a ELSE b

(***************************************************************************)
(* calculateDimensions                                                     *)
(***************************************************************************)
MAX_DIMENSION == 16384

\* "Convert percentage to pixels"
PercentToPixels(original, target, unit) ==
    IF unit = "%" THEN Round(original * ToNumber(target), 100) ELSE target

\* "Handle aspect ratio": the three branches on which of the two is given
\* variant: newWidth * aspectRatio in place of newWidth / aspectRatio
AspectRatioOnlyWidthMutant(originalWidth, originalHeight, newWidth) ==
    Round(newWidth * originalWidth, originalHeight)

AspectRatioOnlyWidth(originalWidth, originalHeight, newWidth) ==
    Round(newWidth * originalHeight, originalWidth)

AspectRatioOnlyHeight(originalWidth, originalHeight, newHeight) ==
    Round(newHeight * originalWidth, originalHeight)

\* scale = Math.min(widthRatio, heightRatio), as the fraction num/den
FitScale(originalWidth, originalHeight, newWidth, newHeight) ==
    IF newWidth * originalHeight <= newHeight * originalWidth
    THEN [num |-> newWidth, den |-> originalWidth]
    ELSE [num |-> newHeight, den |-> originalHeight]

HandleAspectRatio(originalWidth, originalHeight, newWidth, newHeight, maintainAspectRatio) ==
    IF ~maintainAspectRatio
    THEN [width |-> newWidth, height |-> newHeight]
    ELSE IF Truthy(newWidth) /\ ~Truthy(newHeight)
    THEN [width |-> newWidth,
          height |-> AspectRatioOnlyWidth(originalWidth, originalHeight, newWidth)]
    ELSE IF Truthy(newHeight) /\ ~Truthy(newWidth)
    THEN [width |-> AspectRatioOnlyHeight(originalWidth, originalHeight, newHeight),
          height |-> newHeight]
    ELSE IF Truthy(newWidth) /\ Truthy(newHeight)
    THEN LET scale == FitScale(originalWidth, originalHeight, newWidth, newHeight)
         IN  [width |-> Round(originalWidth * scale.num, scale.den),
              height |-> Round(originalHeight * scale.num, scale.den)]
    ELSE [width |-> newWidth, height |-> newHeight]

\* the dimensions before "Ensure minimum dimensions"
PlannedDimensions(originalWidth, originalHeight, targetWidth, targetHeight, unit, maintainAspectRatio) ==
    HandleAspectRatio(originalWidth, originalHeight,
                      PercentToPixels(originalWidth, targetWidth, unit),
                      PercentToPixels(originalHeight, targetHeight, unit),
                      maintainAspectRatio)

\* "Ensure minimum dimensions": Math.max(1, n || original)
EnsureMinimum(n, original) == Max(1, IF Truthy(n) THEN n ELSE original)

\* "Ensure maximum dimensions (prevent memory issues)"
EnsureMaximum(newWidth, newHeight) ==
    IF newWidth > MAX_DIMENSION \/ newHeight > MAX_DIMENSION
    THEN LET m == Max(newWidth, newHeight)
         IN  [width |-> Round(newWidth * MAX_DIMENSION, m),
              height |-> Round(newHeight * MAX_DIMENSION, m)]
    ELSE [width |-> newWidth, height |-> newHeight]

calculateDimensions(originalWidth, originalHeight, targetWidth, targetHeight, unit, maintainAspectRatio) ==
    LET planned == PlannedDimensions(originalWidth, originalHeight, targetWidth,
                                     targetHeight, unit, maintainAspectRatio)
    IN  EnsureMaximum(EnsureMinimum(planned.width, originalWidth),
                      EnsureMinimum(planned.height, originalHeight))

(***************************************************************************)
(* Inputs of the planner                                                   *)
(***************************************************************************)
SrcDims == (1..MaxSrc) \cup {10, 1000, 3000, 4000}

ReqVals == {Null} \cup (0..MaxReq) \cup {10, 120, 750, 1000, 16384, 16385, 32769}

Units == {"px", "%"}

\* every intermediate dimension is at most MaxPlanned, so that each product of the
\* planner fits a 32-bit integer
Representable(ow, oh, tw, th, unit, mar) ==
    /\ ToNumber(PercentToPixels(ow, tw, unit)) <= MaxPlanned
    /\ ToNumber(PercentToPixels(oh, th, unit)) <= MaxPlanned
    /\ LET p == PlannedDimensions(ow, oh, tw, th, unit, mar)
       IN  ToNumber(p.width) <= MaxPlanned /\ ToNumber(p.height) <= MaxPlanned

DimIdle == [pc |-> "idle"]

DimCalls ==
    { [pc |-> "call", originalWidth |-> ow, originalHeight |-> oh,
       targetWidth |-> tw, targetHeight |-> th, unit |-> u, maintainAspectRatio |-> m] :
      ow \in SrcDims, oh \in SrcDims, tw \in ReqVals, th \in ReqVals,
      u \in Units, m \in BOOLEAN }

ImgIdle == [pc |-> "idle"]

QsIdle == [pc |-> "idle"]

BatchIdle == [pc |-> "idle"]

PipeIdle == [pc |-> "idle"]

CallIdle == [pc |-> "idle"]

InitDim ==
    /\ dim \in { c \in DimCalls :
                 Representable(c.originalWidth, c.originalHeight, c.targetWidth,
                               c.targetHeight, c.unit, c.maintainAspectRatio) }
    /\ img = ImgIdle
    /\ qs = QsIdle
    /\ batch = BatchIdle
    /\ pipe = PipeIdle
    /\ call = CallIdle

\* one call of calculateDimensions
CalculateDimensions ==
    /\ dim.pc = "call"
    /\ LET r == calculateDimensions(dim.originalWidth, dim.originalHeight, dim.targetWidth,
                                    dim.targetHeight, dim.unit, dim.maintainAspectRatio)
       IN  dim' = [dim EXCEPT !.pc = "done"] @@ [width |-> r.width, height |-> r.height]
    /\ UNCHANGED <<img, qs, batch, pipe, call>>

NextDim == CalculateDimensions

SpecDim == InitDim /\ [][NextDim]_vars

(***************************************************************************)
(* processImage                                                            *)
(***************************************************************************)
\* largest value the EXIF reader is taken to return (codes above 8 are invalid)
MaxExifCode == 9

ORIENTATION_TRANSFORMS ==
    [c \in 1..8 |->
        CASE c = 1 -> [rotate |-> 0, flip |-> FALSE]
          [] c = 2 -> [rotate |-> 0, flip |-> TRUE]
          [] c = 3 -> [rotate |-> 180, flip |-> FALSE]
          [] c = 4 -> [rotate |-> 180, flip |-> TRUE]
          [] c = 5 -> [rotate |-> 90, flip |-> TRUE]
          [] c = 6 -> [rotate |-> 90, flip |-> FALSE]
          [] c = 7 -> [rotate |-> 270, flip |-> TRUE]
          [] c = 8 -> [rotate |-> 270, flip |-> FALSE]]

\* file.type.includes('jpeg') || file.type.includes('jpg')
IsJpegType(type) == type \in {"image/jpeg", "image/jpg", "image/pjpeg"}

\* what reading the file's EXIF does: the import of the reader fails, the reader
\* throws, or it returns a value (Null for undefined: no orientation tag)
ExifOutcomes ==
    {[kind |-> "import_failed", value |-> Null], [kind |-> "throws", value |-> Null]}
    \cup {[kind |-> "value", value |-> v] : v \in {Null} \cup (0..MaxExifCode)}

\* getExifOrientation(file) when reading the EXIF of the file does `exif`
\* variant: without the JPEG check
getExifOrientationMutant(type, exif) ==
    IF exif.kind # "value" THEN 1
    ELSE IF Truthy(exif.value) THEN exif.value ELSE 1

getExifOrientation(type, exif) ==
    IF ~IsJpegType(type) THEN 1
    ELSE IF exif.kind # "value" THEN 1
    ELSE IF Truthy(exif.value) THEN exif.value ELSE 1

\* ORIENTATION_TRANSFORMS[orientation] || ORIENTATION_TRANSFORMS[1]
TransformFor(orientation) ==
    IF orientation \in DOMAIN ORIENTATION_TRANSFORMS
    THEN ORIENTATION_TRANSFORMS[orientation]
    ELSE ORIENTATION_TRANSFORMS[1]

\* "Swap dimensions for 90/270 degree rotations"
\* variant: only the 90 degree rotation swaps
SwapsAxesMutant(transform) == transform.rotate = 90

SwapsAxes(transform) == transform.rotate = 90 \/ transform.rotate = 270

\* the settings object processSingleFile hands to processImage
ProcessImageSettings(settings) ==
    [settings EXCEPT !.resizeEnabled = settings.resizeEnabled /\ ~settings.keepOriginalDimensions]

FileTypes == {"image/jpeg", "image/jpg", "image/png", "image/webp"}

ImgDims == {MaxSrc, 3000, 4000, 20000}

ImgReqVals == {Null, 1000, 16385}

ImgFiles ==
    [type : FileTypes, naturalWidth : ImgDims, naturalHeight : ImgDims]

UiSettings ==
    [resizeEnabled : BOOLEAN, keepOriginalDimensions : BOOLEAN,
     width : ImgReqVals, height : ImgReqVals, unit : Units, maintainAspectRatio : BOOLEAN]

NoExif == [kind |-> "unread", value |-> Null]

NoTransform == [rotate |-> Null, flip |-> FALSE]

InitImg ==
    /\ \E f \in ImgFiles, s \in UiSettings :
          /\ Representable(f.naturalWidth, f.naturalHeight, s.width, s.height,
                           s.unit, s.maintainAspectRatio)
          /\ Representable(f.naturalHeight, f.naturalWidth, s.width, s.height,
                           s.unit, s.maintainAspectRatio)
          /\ img = [pc |-> "load", file |-> f, settings |-> ProcessImageSettings(s),
                    exif |-> NoExif, orientation |-> Null, transform |-> NoTransform,
                    originalWidth |-> Null, originalHeight |-> Null,
                    planned |-> FALSE, plannerWidth |-> Null, plannerHeight |-> Null,
                    canvasWidth |-> Null, canvasHeight |-> Null, error |-> "none"]
    /\ dim = DimIdle
    /\ qs = QsIdle
    /\ batch = BatchIdle
    /\ pipe = PipeIdle
    /\ call = CallIdle

\* await loadImage(file): the image decodes, or onerror rejects
LoadImage ==
    /\ img.pc = "load"
    /\ \/ img' = [img EXCEPT !.pc = "exif",
                             !.originalWidth = img.file.naturalWidth,
                             !.originalHeight = img.file.naturalHeight]
       \/ img' = [img EXCEPT !.pc = "error", !.error = "FILE_CORRUPTED"]
    /\ UNCHANGED <<dim, qs, batch, pipe, call>>

\* await getExifOrientation(file): always resolves
GetExifOrientation ==
    /\ img.pc = "exif"
    /\ \E exif \in ExifOutcomes :
          img' = [img EXCEPT !.pc = "render", !.exif = exif,
                             !.orientation = getExifOrientation(img.file.type, exif)]
    /\ UNCHANGED <<dim, qs, batch, pipe, call>>

\* the synchronous rest of processImage: transform, target dimensions, canvas, draw
Render ==
    /\ img.pc = "render"
    /\ LET transform == TransformFor(img.orientation)
           swap == SwapsAxes(transform)
           rotatedWidth == IF swap THEN img.originalHeight ELSE img.originalWidth
           rotatedHeight == IF swap THEN img.originalWidth ELSE img.originalHeight
           resize == img.settings.resizeEnabled /\ ~img.settings.keepOriginalDimensions
           dims == IF resize
                   THEN calculateDimensions(rotatedWidth, rotatedHeight, img.settings.width,
                                            img.settings.height, img.settings.unit,
                                            img.settings.maintainAspectRatio)
                   ELSE [width |-> rotatedWidth, height |-> rotatedHeight]
           drawn == [img EXCEPT !.transform = transform,
                                !.planned = resize,
                                !.plannerWidth = IF resize THEN rotatedWidth ELSE Null,
                                !.plannerHeight = IF resize THEN rotatedHeight ELSE Null,
                                !.canvasWidth = dims.width,
                                !.canvasHeight = dims.height]
       IN  \/ img' = [drawn EXCEPT !.pc = "done"]
           \/ img' = [drawn EXCEPT !.pc = "error", !.error = "CANVAS_UNSUPPORTED"]
    /\ UNCHANGED <<dim, qs, batch, pipe, call>>

NextImg == LoadImage \/ GetExifOrientation \/ Render

SpecImg == InitImg /\ [][NextImg]_vars

(***************************************************************************)
(* findOptimalQuality                                                      *)
(***************************************************************************)
\* encoded sizes are the multiples of 512 bytes up to 512 * MaxSizeSteps
MaxSizeSteps == 5
\* target sizes 1..MaxTargetKB kilobytes
MaxTargetKB == 2
\* the small caller-overridden quality range is 1..MaxSmallQuality
MaxSmallQuality == 6

Sizes == {512 * k : k \in 1..MaxSizeSteps}

Targets == 1..MaxTargetKB

\* `image/${format === 'jpg' ? 'jpeg' : format}`
SearchMimeType(format) ==
    CASE format = "jpg" -> "image/jpeg"
      [] format = "jpeg" -> "image/jpeg"
      [] format = "webp" -> "image/webp"
      [] format = "png" -> "image/png"

\* null
NoBlob == [size |-> Null, type |-> "null", quality |-> Null]

\* the sizes canvas.toBlob can give the canvas at quality q/100: the size it gave
\* before at that quality, else any size (for a monotone encoder: one that keeps the
\* size non-decreasing in quality)
EncodedSizes(image, q) ==
    IF q \in DOMAIN image.sizes
    THEN {image.sizes[q]}
    ELSE {sz \in Sizes :
            image.monotone =>
               \A p \in DOMAIN image.sizes :
                  /\ p < q => image.sizes[p] <= sz
                  /\ p > q => sz <= image.sizes[p]}

Remember(image, q, sz) ==
    [image EXCEPT !.sizes = [p \in DOMAIN image.sizes \cup {q} |->
                                IF p = q THEN sz ELSE image.sizes[p]]]

\* while (low <= high && iterations < maxIterations)
\* variant: without the iteration budget
LoopConditionMutant(low, high, iterations, maxIterations) == low <= high

LoopCondition(low, high, iterations, maxIterations) ==
    low <= high /\ iterations < maxIterations

\* Math.round((low + high) / 2)
\* variant: low + high / 2
MidpointMutant(low, high) == low + Round(high, 2)

Midpoint(low, high) == Round(low + high, 2)

\* size >= targetBytes * (1 - tolerance) && size <= targetBytes * (1 + tolerance),
\* the tolerance given in percent
WithinTolerance(size, targetBytes, tolerancePct) ==
    /\ size * 100 >= targetBytes * (100 - tolerancePct)
    /\ size * 100 <= targetBytes * (100 + tolerancePct)

\* "File too big, reduce quality" / "File too small, increase quality"
\* variant: the two halves exchanged
NarrowBoundsMutant(low, high, mid, size, targetBytes) ==
    IF size > targetBytes
    THEN [low |-> mid + 1, high |-> high]
    ELSE [low |-> low, high |-> mid - 1]

NarrowBounds(low, high, mid, size, targetBytes) ==
    IF size > targetBytes
    THEN [low |-> low, high |-> mid - 1]
    ELSE [low |-> mid + 1, high |-> high]

DefaultOptions == [minQuality |-> 10, maxQuality |-> 95, tolerancePct |-> 10, maxIterations |-> 10]

\* <<minQuality, maxQuality>>: the default, autoOptimize's, a small range, an empty range
QualityBounds == {<<10, 95>>, <<30, 75>>, <<1, MaxSmallQuality>>, <<10, MaxSmallQuality>>}

SearchOptions ==
    {[minQuality |-> b[1], maxQuality |-> b[2], tolerancePct |-> t, maxIterations |-> n] :
        b \in QualityBounds, t \in {0, 10, 50}, n \in {0, 1, 3, 10}}

SearchFormats == {"jpeg", "jpg", "webp", "png"}

\* a sequence of calls on one canvas, with one format and one options object
InitSearch(nCalls, monotone) ==
    /\ \E format \in SearchFormats, options \in SearchOptions,
          pending \in [1..nCalls -> Targets], m \in monotone :
          /\ m \/ options.maxQuality - options.minQuality < 10 \/ options.maxIterations <= 3
          /\ qs = [pc |-> "idle", format |-> format, options |-> options, pending |-> pending,
                   image |-> [monotone |-> m, sizes |-> << >>],
                   targetSizeKB |-> Null, low |-> Null, high |-> Null,
                   bestBlob |-> NoBlob, bestQuality |-> Null, iterations |-> 0,
                   encodes |-> 0, probes |-> << >>,
                   result |-> [blob |-> NoBlob, quality |-> Null, iterations |-> Null],
                   returns |-> << >>]
    /\ dim = DimIdle
    /\ img = ImgIdle
    /\ batch = BatchIdle
    /\ pipe = PipeIdle
    /\ call = CallIdle

\* findOptimalQuality is called: the code up to the first await
EnterSearch ==
    /\ qs.pc \in {"idle", "returned"}
    /\ qs.pending # << >>
    /\ qs' = [qs EXCEPT !.pc = IF qs.format = "png" THEN "png" ELSE "loop",
                        !.pending = Tail(qs.pending),
                        !.targetSizeKB = Head(qs.pending),
                        !.low = qs.options.minQuality,
                        !.high = qs.options.maxQuality,
                        !.bestBlob = NoBlob,
                        !.bestQuality = qs.options.maxQuality,
                        !.iterations = 0,
                        !.encodes = 0,
                        !.probes = << >>]
    /\ UNCHANGED <<dim, img, batch, pipe, call>>

Returned(q, result) ==
    [q EXCEPT !.pc = "returned", !.result = result,
              !.returns = Append(q.returns, [targetSizeKB |-> q.targetSizeKB,
                                             quality |-> result.quality,
                                             blob |-> result.blob])]

\* "PNG is lossless, can't optimize quality": one encode at quality 1
EncodePng ==
    /\ qs.pc = "png"
    /\ \/ \E sz \in EncodedSizes(qs.image, 100) :
             LET blob == [size |-> sz, type |-> SearchMimeType(qs.format), quality |-> 100]
                 q == [qs EXCEPT !.image = Remember(qs.image, 100, sz),
                                 !.encodes = qs.encodes + 1,
                                 !.probes = Append(qs.probes, blob)]
             IN  qs' = Returned(q, [blob |-> blob, quality |-> 100, iterations |-> 1])
       \/ qs' = [qs EXCEPT !.pc = "threw", !.encodes = qs.encodes + 1]
    /\ UNCHANGED <<dim, img, batch, pipe, call>>

\* one iteration of the binary search
Iterate ==
    /\ qs.pc = "loop"
    /\ LoopCondition(qs.low, qs.high, qs.iterations, qs.options.maxIterations)
    /\ LET iterations == qs.iterations + 1
           mid == Midpoint(qs.low, qs.high)
           targetBytes == qs.targetSizeKB * 1024
       IN  \/ \E sz \in EncodedSizes(qs.image, mid) :
                 LET blob == [size |-> sz, type |-> SearchMimeType(qs.format), quality |-> mid]
                     q == [qs EXCEPT !.image = Remember(qs.image, mid, sz),
                                     !.iterations = iterations,
                                     !.encodes = qs.encodes + 1,
                                     !.probes = Append(qs.probes, blob)]
                     b == NarrowBounds(qs.low, qs.high, mid, sz, targetBytes)
                 IN  IF WithinTolerance(sz, targetBytes, qs.options.tolerancePct)
                     THEN qs' = Returned(q, [blob |-> blob, quality |-> mid,
                                             iterations |-> iterations])
                     ELSE qs' = [q EXCEPT !.low = b.low, !.high = b.high,
                                          !.bestBlob = blob, !.bestQuality = mid]
           \/ qs' = [qs EXCEPT !.pc = "threw", !.iterations = iterations,
                               !.encodes = qs.encodes + 1]
    /\ UNCHANGED <<dim, img, batch, pipe, call>>

\* the loop ends: "Return best result found"
ReturnBest ==
    /\ qs.pc = "loop"
    /\ ~LoopCondition(qs.low, qs.high, qs.iterations, qs.options.maxIterations)
    /\ IF qs.bestBlob # NoBlob
       THEN qs' = Returned(qs, [blob |-> qs.bestBlob, quality |-> qs.bestQuality,
                                iterations |-> qs.iterations])
       ELSE \/ \E sz \in EncodedSizes(qs.image, qs.bestQuality) :
                  LET blob == [size |-> sz, type |-> SearchMimeType(qs.format),
                               quality |-> qs.bestQuality]
                      q == [qs EXCEPT !.image = Remember(qs.image, qs.bestQuality, sz),
                                      !.encodes = qs.encodes + 1,
                                      !.probes = Append(qs.probes, blob),
                                      !.bestBlob = blob]
                  IN  qs' = Returned(q, [blob |-> blob, quality |-> qs.bestQuality,
                                         iterations |-> qs.iterations])
            \/ qs' = [qs EXCEPT !.pc = "threw", !.encodes = qs.encodes + 1]
    /\ UNCHANGED <<dim, img, batch, pipe, call>>

NextSearch == EnterSearch \/ EncodePng \/ Iterate \/ ReturnBest

InitSearchOnce == InitSearch(1, BOOLEAN)

InitSearchPair == InitSearch(2, {TRUE})

\* one call, any encoder
SpecSearch == InitSearchOnce /\ [][NextSearch]_vars

\* two calls in a row on the same image, whose encoded size is non-decreasing in quality
SpecSearchPair == InitSearchPair /\ [][NextSearch]_vars

(***************************************************************************)
(* The file queue and processAllFiles                                      *)
(***************************************************************************)
\* files that handleFiles adds to the queue in one session
MaxFiles == 2
\* activations of the process button in one session
MaxRuns == 2

\* result: null of a queue item
NoResult == [file |-> Null]

\* error: null of a queue item
NoMessage == "null"

\* state.addFile(fileData): the item enters the queue as pending
addFile(files, id) ==
    Append(files, [id |-> id, status |-> "pending", result |-> NoResult, error |-> NoMessage])

\* state.removeFile(id)
removeFile(files, id) == SelectSeq(files, LAMBDA f : f.id # id)

\* state.updateFile(id, updates): { ...f, ...updates } for the item with that id
updateFile(files, id, updates) ==
    [k \in 1..Len(files) |-> IF files[k].id = id THEN updates @@ files[k] ELSE files[k]]

InitBatch ==
    /\ batch = [currentScreen |-> "upload", files |-> << >>, nextId |-> 0,
                isProcessing |-> FALSE, progress |-> 0, progressBar |-> 0,
                runs |-> << >>,
                processedResults |-> << >>, downloadResults |-> << >>]
    /\ dim = DimIdle
    /\ img = ImgIdle
    /\ qs = QsIdle
    /\ pipe = PipeIdle
    /\ call = CallIdle

\* handleFiles: one valid file is added (generateId gives a fresh id); the drop zone
\* and the file input belong to the upload screen
HandleFiles ==
    /\ batch.currentScreen = "upload"
    /\ batch.nextId < MaxFiles
    /\ batch' = [batch EXCEPT !.files = addFile(batch.files, batch.nextId + 1),
                              !.nextId = batch.nextId + 1]
    /\ UNCHANGED <<dim, img, qs, pipe, call>>

\* the remove button of an item of the upload screen's list
RemoveFile ==
    /\ batch.currentScreen = "upload"
    /\ \E k \in 1..Len(batch.files) :
          batch' = [batch EXCEPT !.files = removeFile(batch.files, batch.files[k].id)]
    /\ UNCHANGED <<dim, img, qs, pipe, call>>

\* btnContinue: to the editor when the queue is not empty
Continue ==
    /\ batch.currentScreen = "upload"
    /\ Len(batch.files) > 0
    /\ batch' = [batch EXCEPT !.currentScreen = "editor"]
    /\ UNCHANGED <<dim, img, qs, pipe, call>>

\* btnBackToUpload
BackToUpload ==
    /\ batch.currentScreen = "editor"
    /\ batch' = [batch EXCEPT !.currentScreen = "upload"]
    /\ UNCHANGED <<dim, img, qs, pipe, call>>

\* btnCloseDownload: state.resetFiles() and back to the upload screen
CloseDownload ==
    /\ batch.currentScreen = "download"
    /\ batch' = [batch EXCEPT !.files = << >>, !.isProcessing = FALSE, !.progress = 0,
                              !.currentScreen = "upload"]
    /\ UNCHANGED <<dim, img, qs, pipe, call>>

\* the click handler of btn-process and processAllFiles up to its first await:
\* the queue is read once, the first item becomes processing and its pipeline starts
ClickProcess ==
    /\ batch.currentScreen = "editor"
    /\ Len(batch.runs) < MaxRuns
    /\ IF Len(batch.files) = 0
       THEN UNCHANGED batch
       ELSE LET run == [pc |-> "processSingleFile",
                        files |-> [k \in 1..Len(batch.files) |-> batch.files[k].id],
                        i |-> 0, results |-> << >>, successCount |-> 0, errorCount |-> 0,
                        rejected |-> << >>]
            IN  batch' = [batch EXCEPT
                            !.isProcessing = TRUE,
                            !.progress = 0,
                            !.progressBar = Round(0 * 100, Len(batch.files)),
                            !.files = updateFile(batch.files, batch.files[1].id,
                                                 [status |-> "processing"]),
                            !.runs = Append(batch.runs, run)]
    /\ UNCHANGED <<dim, img, qs, pipe, call>>

\* variant: a loop without its catch, a rejection leaves processAllFiles
ProcessSingleFileSettlesMutant(r) ==
    /\ r <= Len(batch.runs)
    /\ batch.runs[r].pc = "processSingleFile"
    /\ LET run == batch.runs[r]
           id == run.files[run.i + 1]
           result == [file |-> id]
       IN  \/ batch' = [batch EXCEPT
                          !.files = updateFile(batch.files, id,
                                               [status |-> "done", result |-> result]),
                          !.runs[r] = [run EXCEPT !.pc = "sleep50",
                                                  !.results = Append(run.results, result),
                                                  !.successCount = run.successCount + 1,
                                                  !.rejected = Append(run.rejected, FALSE)]]
           \/ batch' = [batch EXCEPT !.runs[r] = [run EXCEPT !.pc = "threw"]]
    /\ UNCHANGED <<dim, img, qs, pipe, call>>

\* await processSingleFile(fileData, settings) settles in run r: the try block goes on
\* to the await sleep(50), or the catch block does
ProcessSingleFileSettles(r) ==
    /\ r <= Len(batch.runs)
    /\ batch.runs[r].pc = "processSingleFile"
    /\ LET run == batch.runs[r]
           id == run.files[run.i + 1]
           result == [file |-> id]
       IN  \/ batch' = [batch EXCEPT
                          !.files = updateFile(batch.files, id,
                                               [status |-> "done", result |-> result]),
                          !.runs[r] = [run EXCEPT !.pc = "sleep50",
                                                  !.results = Append(run.results, result),
                                                  !.successCount = run.successCount + 1,
                                                  !.rejected = Append(run.rejected, FALSE)]]
           \/ batch' = [batch EXCEPT
                          !.files = updateFile(batch.files, id,
                                               [status |-> "error", error |-> "message"]),
                          !.runs[r] = [run EXCEPT !.pc = "sleep50",
                                                  !.errorCount = run.errorCount + 1,
                                                  !.rejected = Append(run.rejected, TRUE)]]
    /\ UNCHANGED <<dim, img, qs, pipe, call>>

\* sleep(50) elapses in run r: i++, then the next item becomes processing and its
\* pipeline starts, or the loop ends and the run awaits sleep(500)
Sleep50Elapses(r) ==
    /\ r <= Len(batch.runs)
    /\ batch.runs[r].pc = "sleep50"
    /\ LET run == batch.runs[r]
           i == run.i + 1
       IN  IF i < Len(run.files)
           THEN batch' = [batch EXCEPT
                            !.progressBar = Round(i * 100, Len(run.files)),
                            !.files = updateFile(batch.files, run.files[i + 1],
                                                 [status |-> "processing"]),
                            !.runs[r] = [run EXCEPT !.pc = "processSingleFile", !.i = i]]
           ELSE batch' = [batch EXCEPT !.progressBar = 100,
                                       !.runs[r] = [run EXCEPT !.pc = "sleep500", !.i = i]]
    /\ UNCHANGED <<dim, img, qs, pipe, call>>

\* sleep(500) elapses in run r: endProcessing, setProcessedResults(results) and, when
\* a file succeeded, updateDownloadResults(results) and the download screen
Sleep500Elapses(r) ==
    /\ r <= Len(batch.runs)
    /\ batch.runs[r].pc = "sleep500"
    /\ LET run == batch.runs[r]
       IN  batch' = [batch EXCEPT
                       !.isProcessing = FALSE,
                       !.progress = 100,
                       !.processedResults = run.results,
                       !.downloadResults = IF run.successCount > 0 THEN run.results
                                           ELSE batch.downloadResults,
                       !.currentScreen = IF run.successCount > 0 THEN "download"
                                         ELSE batch.currentScreen,
                       !.runs[r] = [run EXCEPT !.pc = "returned"]]
    /\ UNCHANGED <<dim, img, qs, pipe, call>>

NextBatch ==
    \/ HandleFiles \/ RemoveFile \/ Continue \/ BackToUpload \/ CloseDownload
    \/ ClickProcess
    \/ \E r \in 1..MaxRuns :
          ProcessSingleFileSettles(r) \/ Sleep50Elapses(r) \/ Sleep500Elapses(r)

SpecBatch == InitBatch /\ [][NextBatch]_vars

\* an await of run r settles
RunStep(r) == ProcessSingleFileSettles(r) \/ Sleep50Elapses(r) \/ Sleep500Elapses(r)

\* every pipeline that was started settles and every timer fires
SpecBatchFair == SpecBatch /\ \A r \in 1..MaxRuns : WF_vars(RunStep(r))

(***************************************************************************)
(* createResultObject, generateOutputFilename, calculateSavings            *)
(***************************************************************************)
\* file names have 1..MaxNameLen characters
MaxNameLen == 5
\* original and encoded sizes are 0..MaxBytes bytes
MaxBytes == 8

Min(a, b) == IF a <= b THEN a ELSE b

\* a file name is the sequence of its characters
NameChars == {"a", "."}

FileNames == UNION {[1..n -> NameChars] : n \in 1..MaxNameLen}

\* the format tokens of the tables of getMimeType, and two that are not in them
FormatTokens == {"jpeg", "jpg", "png", "webp", "gif", "JPEG", "bmp"}

ByteSizes == 0..MaxBytes

\* name.lastIndexOf(ch): the 0-based index of the last occurrence, -1 when there is none
\* variant: indexOf in place of lastIndexOf
LastIndexOfMutant(name, ch) ==
    LET hits == {k \in 1..Len(name) : name[k] = ch}
    IN  IF hits = {} THEN 0 - 1 ELSE (CHOOSE k \in hits : \A j \in hits : k <= j) - 1

LastIndexOf(name, ch) ==
    LET hits == {k \in 1..Len(name) : name[k] = ch}
    IN  IF hits = {} THEN 0 - 1 ELSE (CHOOSE k \in hits : \A j \in hits : j <= k) - 1

\* dotIndex !== -1 ? originalName.slice(0, dotIndex) : originalName
BaseName(originalName) ==
    LET dotIndex == LastIndexOf(originalName, ".")
    IN  IF dotIndex # 0 - 1 THEN SubSeq(originalName, 1, dotIndex) ELSE originalName

\* format.toLowerCase()
ToLowerCase(format) == IF format = "JPEG" THEN "jpeg" ELSE format

\* mimeTypes[format.toLowerCase()] || 'image/jpeg'
getMimeType(format) ==
    LET f == ToLowerCase(format)
    IN  CASE f = "jpeg" -> "image/jpeg"
          [] f = "jpg" -> "image/jpeg"
          [] f = "png" -> "image/png"
          [] f = "webp" -> "image/webp"
          [] f = "gif" -> "image/gif"
          [] OTHER -> "image/jpeg"

\* extensions[mimeType] || 'jpg'
getExtensionFromMime(mimeType) ==
    CASE mimeType = "image/jpeg" -> "jpg"
      [] mimeType = "image/png" -> "png"
      [] mimeType = "image/webp" -> "webp"
      [] mimeType = "image/gif" -> "gif"
      [] OTHER -> "jpg"

\* `${baseName}_optimized.${newExt}`: the base name, the literal and the extension
generateOutputFilename(originalName, format) ==
    BaseName(originalName) \o <<"_optimized.", getExtensionFromMime(getMimeType(format))>>

\* variant: without Math.max(0, ...)
calculateSavingsMutant(originalSize, newSize) ==
    IF originalSize = 0 THEN 0
    ELSE Round((originalSize - newSize) * 100, originalSize)

calculateSavings(originalSize, newSize) ==
    IF originalSize = 0 THEN 0
    ELSE Max(0, Round((originalSize - newSize) * 100, originalSize))

\* the result record, without the thumbnail and the object URL
createResultObject(blob, originalName, originalSize, format) ==
    LET newSize == blob.size
        savings == IF originalSize > 0
                   THEN Round((originalSize - newSize) * 100, originalSize)
                   ELSE 0
        ext == IF format = "jpeg" THEN "jpg" ELSE format
        newName == BaseName(originalName) \o <<"_optimized.", ext>>
    IN  [blob |-> blob, originalName |-> originalName, originalSize |-> originalSize,
         newName |-> newName, newSize |-> newSize, format |-> format,
         savings |-> Max(0, savings)]

NoResultObject ==
    [blob |-> [size |-> Null, type |-> "null"], originalName |-> << >>,
     originalSize |-> Null, newName |-> << >>, newSize |-> Null, format |-> "null",
     savings |-> Null]

\* one file name, format token, original size and encoded size, to which each of the
\* three functions is applied
InitResult ==
    /\ \E name \in FileNames, format \in FormatTokens,
          originalSize \in ByteSizes, newSize \in ByteSizes :
          call = [pc |-> "call", originalName |-> name, format |-> format,
                  originalSize |-> originalSize, newSize |-> newSize, applied |-> {},
                  result |-> NoResultObject, outputFilename |-> << >>, savings |-> Null]
    /\ dim = DimIdle
    /\ img = ImgIdle
    /\ qs = QsIdle
    /\ batch = BatchIdle
    /\ pipe = PipeIdle

CreateResultObject ==
    /\ call.pc = "call"
    /\ "createResultObject" \notin call.applied
    /\ call' = [call EXCEPT
                  !.applied = call.applied \cup {"createResultObject"},
                  !.result = createResultObject([size |-> call.newSize, type |-> "null"],
                                                call.originalName, call.originalSize,
                                                call.format)]
    /\ UNCHANGED <<dim, img, qs, batch, pipe>>

GenerateOutputFilename ==
    /\ call.pc = "call"
    /\ "generateOutputFilename" \notin call.applied
    /\ call' = [call EXCEPT
                  !.applied = call.applied \cup {"generateOutputFilename"},
                  !.outputFilename = generateOutputFilename(call.originalName, call.format)]
    /\ UNCHANGED <<dim, img, qs, batch, pipe>>

CalculateSavings ==
    /\ call.pc = "call"
    /\ "calculateSavings" \notin call.applied
    /\ call' = [call EXCEPT
                  !.applied = call.applied \cup {"calculateSavings"},
                  !.savings = calculateSavings(call.originalSize, call.newSize)]
    /\ UNCHANGED <<dim, img, qs, batch, pipe>>

NextResult == CreateResultObject \/ GenerateOutputFilename \/ CalculateSavings

SpecResult == InitResult /\ [][NextResult]_vars

(***************************************************************************)
(* The encoder entry points: quality 0-100 to the encoder's 0-1            *)
(* A normalized quality n/100 is represented by its numerator n.           *)
(***************************************************************************)
\* quality settings from -MaxQualityExcess to 100 + MaxQualityExcess are enumerated
MaxQualityExcess == 20

QualitySettings == (0 - MaxQualityExcess)..(100 + MaxQualityExcess)

\* app.js canvasToBlob: Math.max(0.1, Math.min(1, quality / 100))
\* variant: without Math.max(0.1, ...)
canvasToBlobNormalizedQualityMutant(quality) == Min(100, quality)

canvasToBlobNormalizedQuality(quality) == Max(10, Min(100, quality))

\* compressImage: initialQuality
compressImageNormalizedQuality(quality) == Max(10, Min(100, quality))

\* compressWithCanvas
compressWithCanvasNormalizedQuality(quality) == Max(10, Min(100, quality))

\* convertFormat
convertFormatNormalizedQuality(quality) == Max(10, Min(100, quality))

EncoderEntryPoints == {"canvasToBlob", "compressImage", "compressWithCanvas", "convertFormat"}

\* one entry point is called with one quality setting
InitEncode ==
    /\ \E entry \in EncoderEntryPoints, quality \in QualitySettings :
          call = [pc |-> "call", entry |-> entry, quality |-> quality,
                  normalizedQuality |-> Null]
    /\ dim = DimIdle
    /\ img = ImgIdle
    /\ qs = QsIdle
    /\ batch = BatchIdle
    /\ pipe = PipeIdle

\* canvas.toBlob(callback, mimeType, normalizedQuality) of app.js canvasToBlob
CanvasToBlob ==
    /\ call.pc = "call" /\ call.entry = "canvasToBlob"
    /\ call' = [call EXCEPT !.pc = "encoding",
                            !.normalizedQuality = canvasToBlobNormalizedQuality(call.quality)]
    /\ UNCHANGED <<dim, img, qs, batch, pipe>>

\* imageCompression(inputFile, {initialQuality: normalizedQuality, ...})
CompressImage ==
    /\ call.pc = "call" /\ call.entry = "compressImage"
    /\ call' = [call EXCEPT !.pc = "encoding",
                            !.normalizedQuality = compressImageNormalizedQuality(call.quality)]
    /\ UNCHANGED <<dim, img, qs, batch, pipe>>

\* canvas.toBlob(callback, mimeType, normalizedQuality) of compressWithCanvas
CompressWithCanvas ==
    /\ call.pc = "call" /\ call.entry = "compressWithCanvas"
    /\ call' = [call EXCEPT !.pc = "encoding",
                            !.normalizedQuality =
                                compressWithCanvasNormalizedQuality(call.quality)]
    /\ UNCHANGED <<dim, img, qs, batch, pipe>>

\* canvas.toBlob(callback, targetMime, normalizedQuality) of convertFormat
ConvertFormat ==
    /\ call.pc = "call" /\ call.entry = "convertFormat"
    /\ call' = [call EXCEPT !.pc = "encoding",
                            !.normalizedQuality = convertFormatNormalizedQuality(call.quality)]
    /\ UNCHANGED <<dim, img, qs, batch, pipe>>

NextEncode == CanvasToBlob \/ CompressImage \/ CompressWithCanvas \/ ConvertFormat

SpecEncode == InitEncode /\ [][NextEncode]_vars

(***************************************************************************)
(* processSingleFile and autoOptimize                                      *)
(***************************************************************************)
\* the encoded sizes are 1..MaxBlobBytes bytes
MaxBlobBytes == 2

BlobSizes == 1..MaxBlobBytes

\* the type of the blob that canvas.toBlob gives for a requested type: a type
\* the host cannot encode gives image/png
HostEncodedType(host, mimeType) ==
    IF mimeType = "image/webp" /\ ~host.webp THEN "image/png" ELSE mimeType

\* canvas.toDataURL('image/webp').startsWith('data:image/webp')
checkWebPSupport(host) == HostEncodedType(host, "image/webp") = "image/webp"

\* settings.format of the state; "" is an unset format
FormatSettings == {"", "webp", "jpeg", "jpg", "png"}

\* settings.quality
PipeQualities == {0, 80, 100 + MaxQualityExcess}

\* settings.format || 'webp'
TargetFormat(settings) == IF settings.format # "" THEN settings.format ELSE "webp"

NoPipeBlob == [type |-> "null", size |-> Null, hasTransparency |-> FALSE]

\* the blob of an encode of a raster: JPEG has no alpha channel
EncodedBlob(host, mimeType, size, hasTransparency) ==
    LET type == HostEncodedType(host, mimeType)
    IN  [type |-> type, size |-> size,
         hasTransparency |-> hasTransparency /\ type # "image/jpeg"]

\* the types of the file that imageCompression may return for a blob
LibraryTypes(blob) == {blob.type, "image/jpeg", "image/png"}

\* analyzeImage: avgVariance = totalVariance / Math.max(1, pixelCount) is kept as the
\* pair of its numerator and denominator; the heuristics on the sampled pixels
\* variant: avgVariance < 40 in place of avgVariance < 20
IsGraphicMutant(analysis) ==
    \/ analysis.totalVariance < 40 * Max(1, analysis.pixelCount)
    \/ analysis.colorCount < 500

IsPhoto(analysis) ==
    /\ analysis.totalVariance > 30 * Max(1, analysis.pixelCount)
    /\ analysis.colorCount > 1000

IsGraphic(analysis) ==
    \/ analysis.totalVariance < 20 * Max(1, analysis.pixelCount)
    \/ analysis.colorCount < 500

\* analyses of canvases of 2000 sampled pixels with average variance 10, 25 and 40
Analyses ==
    [hasTransparency : BOOLEAN, colorCount : {100, 300, 2000},
     totalVariance : {20000, 50000, 80000}, pixelCount : {2000}]

AutoOptimizeOptions == [preferSmallSize : BOOLEAN, maxSizeKB : {Null, 100}]

NoAnalysis ==
    [hasTransparency |-> FALSE, colorCount |-> Null, totalVariance |-> Null,
     pixelCount |-> Null]

NoOptions == [preferSmallSize |-> TRUE, maxSizeKB |-> Null]

\* "Determine best format"
AutoFormat(host, analysis) ==
    LET format == IF ~checkWebPSupport(host) THEN "jpeg" ELSE "webp"
    IN  IF analysis.hasTransparency THEN "png"
        ELSE IF analysis.colorCount < 256 /\ IsGraphic(analysis) THEN "png"
        ELSE format

\* "Determine quality based on content"
AutoQuality(analysis, options) ==
    IF IsPhoto(analysis) THEN (IF options.preferSmallSize THEN 75 ELSE 85)
    ELSE IF IsGraphic(analysis) THEN (IF options.preferSmallSize THEN 85 ELSE 95)
    ELSE 85

PipeStart(caller, pc, host, settings, hasTransparency, analysis, options) ==
    [caller |-> caller, pc |-> pc, host |-> host, settings |-> settings,
     file |-> [hasTransparency |-> hasTransparency, originalName |-> <<"a", ".", "a">>,
               originalSize |-> MaxBlobBytes],
     analysis |-> analysis, options |-> options,
     canvas |-> [hasTransparency |-> hasTransparency],
     targetFormat |-> "null", targetMime |-> "null", quality |-> Null,
     blob |-> NoPipeBlob, canvasBlob |-> NoPipeBlob, encodes |-> << >>,
     libraryCalls |-> 0, compressionError |-> "none", error |-> "none",
     result |-> [format |-> "null", quality |-> Null, blob |-> NoPipeBlob,
                 newName |-> << >>, savings |-> Null]]

\* processSingleFile is called on one file with the settings of the state, or
\* autoOptimize on one canvas
InitPipe ==
    /\ \E host \in [webp : BOOLEAN] :
          \/ \E format \in FormatSettings, quality \in PipeQualities,
                hasTransparency \in BOOLEAN :
                pipe = PipeStart("processSingleFile", "processImage", host,
                                 [format |-> format, quality |-> quality],
                                 hasTransparency, NoAnalysis, NoOptions)
          \/ \E analysis \in Analyses, options \in AutoOptimizeOptions :
                pipe = PipeStart("autoOptimize", "autoOptimize", host,
                                 [format |-> "", quality |-> Null],
                                 analysis.hasTransparency, analysis, options)
    /\ dim = DimIdle
    /\ img = ImgIdle
    /\ qs = QsIdle
    /\ batch = BatchIdle
    /\ call = CallIdle

\* an encode is issued: who issues it, the requested type, the normalized quality
\* and whether the raster or image handed to the encoder has transparent pixels
Encode(by, mimeType, normalizedQuality, hasTransparency) ==
    [by |-> by, mimeType |-> mimeType, quality |-> normalizedQuality,
     hasTransparency |-> hasTransparency]

\* Step 1 settles; steps 2 and 3 up to the await of canvasToBlob
ProcessImageSettles ==
    /\ pipe.pc = "processImage"
    /\ \/ LET targetFormat == TargetFormat(pipe.settings)
              targetMime == getMimeType(targetFormat)
          IN  pipe' = [pipe EXCEPT
                         !.pc = "canvasToBlob",
                         !.targetFormat = targetFormat,
                         !.targetMime = targetMime,
                         !.encodes = Append(pipe.encodes,
                             Encode("canvasToBlob", targetMime,
                                    canvasToBlobNormalizedQuality(pipe.settings.quality),
                                    pipe.canvas.hasTransparency))]
       \/ pipe' = [pipe EXCEPT !.pc = "threw", !.error = "processImage"]
    /\ UNCHANGED <<dim, img, qs, batch, call>>

\* Step 3 settles; step 4 up to the await of initLibrary
CanvasToBlobSettles ==
    /\ pipe.pc = "canvasToBlob"
    /\ \/ \E size \in BlobSizes :
             pipe' = [pipe EXCEPT
                        !.pc = "initLibrary",
                        !.blob = EncodedBlob(pipe.host, pipe.targetMime, size,
                                             pipe.canvas.hasTransparency),
                        !.canvasBlob = EncodedBlob(pipe.host, pipe.targetMime, size,
                                                   pipe.canvas.hasTransparency)]
       \/ pipe' = [pipe EXCEPT !.pc = "threw", !.error = "canvasToBlob"]
    /\ UNCHANGED <<dim, img, qs, batch, call>>

\* Step 5 and the result: convertFormat is called when the blob has another type,
\* else createResultObject is
EnsureFormat(p) ==
    IF p.blob.type # p.targetMime
    THEN [p EXCEPT !.pc = "createImageFromBlob"]
    ELSE LET r == createResultObject(p.blob, p.file.originalName, p.file.originalSize,
                                     p.targetFormat)
         IN  [p EXCEPT !.pc = "returned",
                       !.result = [format |-> r.format, quality |-> p.settings.quality,
                                   blob |-> r.blob, newName |-> r.newName,
                                   savings |-> r.savings]]

\* a step 4 without its catch: the error of compressImage leaves processSingleFile
CatchCompressionErrorMutant(p, code) ==
    [p EXCEPT !.compressionError = code, !.pc = "threw", !.error = "compressImage"]

\* the catch of step 4: compressImage threw, the blob of step 3 is kept and
\* processSingleFile goes on to step 5
CatchCompressionError(p, code) ==
    EnsureFormat([p EXCEPT !.compressionError = code])

\* the call of imageCompression with the compression options
CallLibrary(p) ==
    [p EXCEPT !.libraryCalls = p.libraryCalls + 1,
              !.encodes = Append(p.encodes,
                  Encode("compressImage", p.blob.type,
                         compressImageNormalizedQuality(p.settings.quality),
                         p.blob.hasTransparency))]

\* compressImage: initLibrary settles. The library loads and imageCompression is
\* called; or the import fails, compressImage throws LIBRARY_LOAD_FAILED and the
\* catch of step 4 keeps the canvas output
InitLibrarySettles ==
    /\ pipe.pc = "initLibrary"
    /\ \/ pipe' = [CallLibrary(pipe) EXCEPT !.pc = "imageCompression"]
       \/ pipe' = CatchCompressionError(pipe, "LIBRARY_LOAD_FAILED")
    /\ UNCHANGED <<dim, img, qs, batch, call>>

\* the blob that step 4 keeps when imageCompression resolves: the smaller one
UseIfSmaller(p, type, size) ==
    LET compressedBlob == [type |-> type, size |-> size,
                           hasTransparency |-> p.blob.hasTransparency
                                               /\ type # "image/jpeg"]
    IN  [p EXCEPT !.blob = IF compressedBlob.size < p.blob.size
                           THEN compressedBlob ELSE p.blob]

\* the first call of imageCompression settles: it resolves, or it rejects and the
\* catch calls it again with useWebWorker = false
ImageCompressionSettles ==
    /\ pipe.pc = "imageCompression"
    /\ \/ \E type \in LibraryTypes(pipe.blob), size \in BlobSizes :
             pipe' = EnsureFormat(UseIfSmaller(pipe, type, size))
       \/ pipe' = [CallLibrary(pipe) EXCEPT !.pc = "imageCompressionFallback"]
    /\ UNCHANGED <<dim, img, qs, batch, call>>

\* the second call settles: it resolves, or it rejects, compressImage throws
\* COMPRESSION_FAILED and the catch of step 4 keeps the canvas output
ImageCompressionFallbackSettles ==
    /\ pipe.pc = "imageCompressionFallback"
    /\ \/ \E type \in LibraryTypes(pipe.blob), size \in BlobSizes :
             pipe' = EnsureFormat(UseIfSmaller(pipe, type, size))
       \/ pipe' = CatchCompressionError(pipe, "COMPRESSION_FAILED")
    /\ UNCHANGED <<dim, img, qs, batch, call>>

\* convertFormat: the image of the blob loads, a white background is filled for
\* jpeg, the image is drawn and the encode is issued; or the image fails to load
CreateImageFromBlobSettles ==
    /\ pipe.pc = "createImageFromBlob"
    /\ \/ LET filled == pipe.targetFormat \in {"jpeg", "jpg"}
              hasTransparency == pipe.blob.hasTransparency /\ ~filled
          IN  pipe' = [pipe EXCEPT
                         !.pc = "convertFormat",
                         !.canvas = [hasTransparency |-> hasTransparency],
                         !.encodes = Append(pipe.encodes,
                             Encode("convertFormat", pipe.targetMime,
                                    convertFormatNormalizedQuality(pipe.settings.quality),
                                    hasTransparency))]
       \/ pipe' = [pipe EXCEPT !.pc = "threw", !.error = "convertFormat"]
    /\ UNCHANGED <<dim, img, qs, batch, call>>

\* the encode of convertFormat settles and createResultObject is called
ConvertFormatSettles ==
    /\ pipe.pc = "convertFormat"
    /\ \/ \E size \in BlobSizes :
             LET blob == EncodedBlob(pipe.host, pipe.targetMime, size,
                                     pipe.canvas.hasTransparency)
                 r == createResultObject(blob, pipe.file.originalName,
                                         pipe.file.originalSize, pipe.targetFormat)
             IN  pipe' = [pipe EXCEPT
                            !.pc = "returned",
                            !.blob = blob,
                            !.result = [format |-> r.format,
                                        quality |-> pipe.settings.quality,
                                        blob |-> r.blob, newName |-> r.newName,
                                        savings |-> r.savings]]
       \/ pipe' = [pipe EXCEPT !.pc = "threw", !.error = "convertFormat"]
    /\ UNCHANGED <<dim, img, qs, batch, call>>

\* autoOptimize up to its first await: the format and the quality are chosen, then
\* findOptimalQuality is called, or canvasToBlob with quality / 100
AutoOptimize ==
    /\ pipe.pc = "autoOptimize"
    /\ LET format == AutoFormat(pipe.host, pipe.analysis)
           quality == AutoQuality(pipe.analysis, pipe.options)
       IN  IF Truthy(pipe.options.maxSizeKB) /\ format # "png"
           THEN pipe' = [pipe EXCEPT !.pc = "findOptimalQuality",
                                     !.targetFormat = format,
                                     !.targetMime = SearchMimeType(format),
                                     !.quality = quality]
           ELSE pipe' = [pipe EXCEPT
                           !.pc = "autoCanvasToBlob",
                           !.targetFormat = format,
                           !.targetMime = SearchMimeType(format),
                           !.quality = quality,
                           !.encodes = Append(pipe.encodes,
                               Encode("autoOptimize", SearchMimeType(format), quality,
                                      pipe.canvas.hasTransparency))]
    /\ UNCHANGED <<dim, img, qs, batch, call>>

\* findOptimalQuality(canvas, format, maxSizeKB, {minQuality: 30, maxQuality: quality})
\* settles: it returns one of its encodes, at a quality between the two, or an
\* encode fails
FindOptimalQualitySettles ==
    /\ pipe.pc = "findOptimalQuality"
    /\ \/ \E quality \in {30, Midpoint(30, pipe.quality), pipe.quality}, size \in BlobSizes :
             LET blob == EncodedBlob(pipe.host, pipe.targetMime, size,
                                     pipe.canvas.hasTransparency)
             IN  pipe' = [pipe EXCEPT
                            !.pc = "returned",
                            !.blob = blob,
                            !.encodes = Append(pipe.encodes,
                                Encode("findOptimalQuality", pipe.targetMime, quality,
                                       pipe.canvas.hasTransparency)),
                            !.result = [pipe.result EXCEPT !.format = pipe.targetFormat,
                                                           !.quality = quality,
                                                           !.blob = blob]]
       \/ pipe' = [pipe EXCEPT !.pc = "threw", !.error = "canvasToBlob"]
    /\ UNCHANGED <<dim, img, qs, batch, call>>

\* the encode of autoOptimize settles
AutoCanvasToBlobSettles ==
    /\ pipe.pc = "autoCanvasToBlob"
    /\ \/ \E size \in BlobSizes :
             LET blob == EncodedBlob(pipe.host, pipe.targetMime, size,
                                     pipe.canvas.hasTransparency)
             IN  pipe' = [pipe EXCEPT
                            !.pc = "returned",
                            !.blob = blob,
                            !.result = [pipe.result EXCEPT !.format = pipe.targetFormat,
                                                           !.quality = pipe.quality,
                                                           !.blob = blob]]
       \/ pipe' = [pipe EXCEPT !.pc = "threw", !.error = "canvasToBlob"]
    /\ UNCHANGED <<dim, img, qs, batch, call>>

NextPipe ==
    \/ ProcessImageSettles \/ CanvasToBlobSettles \/ InitLibrarySettles
    \/ ImageCompressionSettles \/ ImageCompressionFallbackSettles
    \/ CreateImageFromBlobSettles \/ ConvertFormatSettles
    \/ AutoOptimize \/ FindOptimalQualitySettles \/ AutoCanvasToBlobSettles

SpecPipe == InitPipe /\ [][NextPipe]_vars

(***************************************************************************)
(* analyzeImage                                                            *)
(***************************************************************************)
\* average variances around 0..MaxVariance are enumerated
MaxVariance == 40

\* numbers of sampled pixels and of distinct quantized colours among them
PixelCounts == {1, 2, 499, 500, 1000, 1001, 2000}

ColorCounts == {1, 2, 255, 256, 499, 500, 501, 1000, 1001, 2000}

\* the sums of differences that give an average of v, or just below or above it
TotalVariances(pixelCount) ==
    {t \in {pixelCount * v + d : v \in 0..MaxVariance, d \in {0 - 1, 0, 1}} : t >= 0}

\* the sampled pixels of one canvas, by their counts
InitAnalysis ==
    /\ \E pixelCount \in PixelCounts, colorCount \in ColorCounts,
          hasTransparency \in BOOLEAN :
          /\ colorCount <= pixelCount
          /\ \E totalVariance \in TotalVariances(pixelCount) :
                call = [pc |-> "call", hasTransparency |-> hasTransparency,
                        colorCount |-> colorCount, totalVariance |-> totalVariance,
                        pixelCount |-> pixelCount, isPhoto |-> FALSE, isGraphic |-> FALSE]
    /\ dim = DimIdle
    /\ img = ImgIdle
    /\ qs = QsIdle
    /\ batch = BatchIdle
    /\ pipe = PipeIdle

\* analyzeImage(canvas): the heuristics are evaluated on the counts
AnalyzeImage ==
    /\ call.pc = "call"
    /\ call' = [call EXCEPT !.pc = "analyzed",
                            !.isPhoto = IsPhoto(call),
                            !.isGraphic = IsGraphic(call)]
    /\ UNCHANGED <<dim, img, qs, batch, pipe>>

NextAnalysis == AnalyzeImage

SpecAnalysis == InitAnalysis /\ [][NextAnalysis]_vars

(***************************************************************************)
(* loadImage and createImageFromBlob: decoding through an object URL       *)
(***************************************************************************)
\* decode calls made in one behaviour
MaxDecodes == 3

DecodeFunctions == {"loadImage", "createImageFromBlob"}

\* URL.createObjectURL: a new URL, live until it is revoked
createObjectURL(c) ==
    [c EXCEPT !.live = c.live \cup {c.nextUrl}, !.nextUrl = c.nextUrl + 1]

\* variant: a handler that does not revoke
revokeObjectURLMutant(c, url) == c

\* URL.revokeObjectURL
revokeObjectURL(c, url) ==
    [c EXCEPT !.live = c.live \ {url}, !.revoked = Append(c.revoked, url)]

InitDecode ==
    /\ call = [pc |-> "decode", decodes |-> << >>, live |-> {}, revoked |-> << >>,
               nextUrl |-> 1]
    /\ dim = DimIdle
    /\ img = ImgIdle
    /\ qs = QsIdle
    /\ batch = BatchIdle
    /\ pipe = PipeIdle

\* the promise executor: the URL is created, the handlers are set, img.src = url
StartDecode(fn, corrupted) ==
    LET c == createObjectURL(call)
    IN  [c EXCEPT !.decodes = Append(call.decodes,
                      [fn |-> fn, corrupted |-> corrupted, url |-> call.nextUrl,
                       promise |-> "pending", log |-> <<"createObjectURL">>])]

\* loadImage(file) is called
LoadImageCall ==
    /\ Len(call.decodes) < MaxDecodes
    /\ \E corrupted \in BOOLEAN : call' = StartDecode("loadImage", corrupted)
    /\ UNCHANGED <<dim, img, qs, batch, pipe>>

\* createImageFromBlob(blob) is called
CreateImageFromBlobCall ==
    /\ Len(call.decodes) < MaxDecodes
    /\ \E corrupted \in BOOLEAN : call' = StartDecode("createImageFromBlob", corrupted)
    /\ UNCHANGED <<dim, img, qs, batch, pipe>>

\* a handler of the image runs: the URL is revoked, then the promise is settled
DecodeHandler(i, settle, state) ==
    LET d == call.decodes[i]
        c == revokeObjectURL(call, d.url)
        log == IF c.live = call.live THEN d.log ELSE Append(d.log, "revokeObjectURL")
    IN  [c EXCEPT !.decodes[i].promise = state,
                  !.decodes[i].log = Append(log, settle)]

\* img.onload: the image of a pending decode has loaded
ImgOnLoad ==
    /\ \E i \in 1..Len(call.decodes) :
          /\ call.decodes[i].promise = "pending"
          /\ ~call.decodes[i].corrupted
          /\ call' = DecodeHandler(i, "resolve", "fulfilled")
    /\ UNCHANGED <<dim, img, qs, batch, pipe>>

\* img.onerror: the image of a pending decode has failed to load
ImgOnError ==
    /\ \E i \in 1..Len(call.decodes) :
          /\ call.decodes[i].promise = "pending"
          /\ call' = DecodeHandler(i, "reject", "rejected")
    /\ UNCHANGED <<dim, img, qs, batch, pipe>>

NextDecode == LoadImageCall \/ CreateImageFromBlobCall \/ ImgOnLoad \/ ImgOnError

SpecDecode == InitDecode /\ [][NextDecode]_vars

(***************************************************************************)
(* applyExifTransform and the drawImage that follows it                    *)
(***************************************************************************)
\* canvas widths and heights 1..MaxCanvas
MaxCanvas == 4

\* The current transformation matrix of a 2D context: a point (x, y) is drawn at
\* (a x + c y + e, b x + d y + f). Lengths are counted in half pixels, so that
\* width / 2 is an integer: e, f and the arguments of translate are halves.
IdentityMatrix == [a |-> 1, b |-> 0, c |-> 0, d |-> 1, e |-> 0, f |-> 0]

\* ctx.translate(tx, ty)
translate(m, tx, ty) ==
    [m EXCEPT !.e = m.e + m.a * tx + m.c * ty, !.f = m.f + m.b * tx + m.d * ty]

\* Math.cos and Math.sin of (rotate * Math.PI) / 180 for the quarter turns
Cos(degrees) == CASE degrees = 0 -> 1 [] degrees = 90 -> 0
                  [] degrees = 180 -> 0 - 1 [] degrees = 270 -> 0
Sin(degrees) == CASE degrees = 0 -> 0 [] degrees = 90 -> 1
                  [] degrees = 180 -> 0 [] degrees = 270 -> 0 - 1

\* ctx.rotate(angle), clockwise
rotate(m, degrees) ==
    [m EXCEPT !.a = m.a * Cos(degrees) + m.c * Sin(degrees),
              !.b = m.b * Cos(degrees) + m.d * Sin(degrees),
              !.c = m.c * Cos(degrees) - m.a * Sin(degrees),
              !.d = m.d * Cos(degrees) - m.b * Sin(degrees)]

\* ctx.scale(sx, sy)
scale(m, sx, sy) ==
    [m EXCEPT !.a = m.a * sx, !.b = m.b * sx, !.c = m.c * sy, !.d = m.d * sy]

\* "Adjust position based on rotation", in half pixels
\* variant: the same translation for every rotation
AdjustPositionMutant(width, height, transform) == <<0 - width, 0 - height>>

AdjustPosition(width, height, transform) ==
    IF transform.rotate = 90 \/ transform.rotate = 270
    THEN <<0 - height, 0 - width>>
    ELSE <<0 - width, 0 - height>>

applyExifTransform(m, width, height, transform) ==
    LET centered == translate(m, width, height)
        rotated == IF Truthy(transform.rotate) THEN rotate(centered, transform.rotate)
                   ELSE centered
        flipped == IF transform.flip THEN scale(rotated, 0 - 1, 1) ELSE rotated
        t == AdjustPosition(width, height, transform)
    IN  translate(flipped, t[1], t[2])

\* where the context draws the point (x, y), in half pixels
DrawnAt(m, x, y) == <<m.a * 2 * x + m.c * 2 * y + m.e, m.b * 2 * x + m.d * 2 * y + m.f>>

InitExif ==
    /\ \E orientation \in 1..8, targetWidth \in 1..MaxCanvas, targetHeight \in 1..MaxCanvas :
          call = [pc |-> "applyExifTransform",
                  transform |-> ORIENTATION_TRANSFORMS[orientation],
                  targetWidth |-> targetWidth, targetHeight |-> targetHeight,
                  ctm |-> IdentityMatrix,
                  drawWidth |-> Null, drawHeight |-> Null, drawn |-> {}]
    /\ dim = DimIdle
    /\ img = ImgIdle
    /\ qs = QsIdle
    /\ batch = BatchIdle
    /\ pipe = PipeIdle

\* applyExifTransform(ctx, targetWidth, targetHeight, transform)
ApplyExifTransform ==
    /\ call.pc = "applyExifTransform"
    /\ call' = [call EXCEPT !.pc = "drawImage",
                            !.ctm = applyExifTransform(call.ctm, call.targetWidth,
                                                       call.targetHeight, call.transform)]
    /\ UNCHANGED <<dim, img, qs, batch, pipe>>

\* ctx.drawImage(img, 0, 0, drawWidth, drawHeight), then the transform is reset
DrawImage ==
    /\ call.pc = "drawImage"
    /\ LET swap == call.transform.rotate = 90 \/ call.transform.rotate = 270
           drawWidth == IF swap THEN call.targetHeight ELSE call.targetWidth
           drawHeight == IF swap THEN call.targetWidth ELSE call.targetHeight
       IN  call' = [call EXCEPT
                      !.pc = "drawn",
                      !.drawWidth = drawWidth, !.drawHeight = drawHeight,
                      !.drawn = {DrawnAt(call.ctm, x, y) : x \in 0..drawWidth,
                                                           y \in 0..drawHeight},
                      !.ctm = IdentityMatrix]
    /\ UNCHANGED <<dim, img, qs, batch, pipe>>

NextExif == ApplyExifTransform \/ DrawImage

SpecExif == InitExif /\ [][NextExif]_vars

(***************************************************************************)
(* The dimension inputs of the editor and the resize of processImage       *)
(***************************************************************************)
\* input events made in one behaviour
MaxInputs == 2

\* widths and heights of the image shown in the editor
ReferenceDims == {2, 3, 10, 100, 400}

\* parseInt(value, 10) of what a dimension input holds; Null is NaN (an empty input)
InputValues == {Null, 0, 1, 50, 100, 150}

\* parseInt(value, 10) || fallback
ParsedOr(value, fallback) == IF Truthy(value) THEN value ELSE fallback

\* updateDimensionsFromInput(changedField): the settings and the two input values
\* that it leaves
updateDimensionsFromInput(c, changedField) ==
    LET originalWidth == ParsedOr(c.settings.originalWidth, 1920)
        originalHeight == ParsedOr(c.settings.originalHeight, 1080)
        changedValue == IF changedField = "width" THEN c.inputWidth ELSE c.inputHeight
    IN  IF ~c.settings.maintainAspectRatio
        THEN [c EXCEPT !.settings.width = ParsedOr(c.inputWidth, 0),
                       !.settings.height = ParsedOr(c.inputHeight, 0)]
        ELSE IF c.settings.unit = "%"
        THEN LET value == ParsedOr(changedValue, 100)
             IN  [c EXCEPT !.inputWidth = value, !.inputHeight = value,
                           !.settings.width = Round(originalWidth * value, 100),
                           !.settings.height = Round(originalHeight * value, 100)]
        ELSE IF changedField = "width"
        THEN LET newWidth == ParsedOr(c.inputWidth, 0)
                 newHeight == Round(newWidth * originalHeight, originalWidth)
             IN  [c EXCEPT !.inputHeight = newHeight,
                           !.settings.width = newWidth, !.settings.height = newHeight]
        ELSE LET newHeight == ParsedOr(c.inputHeight, 0)
                 newWidth == Round(newHeight * originalWidth, originalHeight)
             IN  [c EXCEPT !.inputWidth = newWidth,
                           !.settings.width = newWidth, !.settings.height = newHeight]

\* the editor shows an image of the reference size: updateImageInfo has stored its
\* dimensions, the unit and the aspect lock are as the user has set them, and
\* "keep original dimensions" is unchecked
InitEditor ==
    /\ \E sourceW \in ReferenceDims, sourceH \in ReferenceDims,
          unit \in Units, maintainAspectRatio \in BOOLEAN :
          call = [pc |-> "editor", sourceW |-> sourceW, sourceH |-> sourceH,
                  settings |-> [width |-> sourceW, height |-> sourceH,
                                originalWidth |-> sourceW, originalHeight |-> sourceH,
                                unit |-> unit, maintainAspectRatio |-> maintainAspectRatio,
                                keepOriginalDimensions |-> FALSE, resizeEnabled |-> FALSE],
                  inputWidth |-> IF unit = "%" THEN 100 ELSE sourceW,
                  inputHeight |-> IF unit = "%" THEN 100 ELSE sourceH,
                  inputs |-> 0, pending |-> "none", entered |-> Null,
                  target |-> [width |-> Null, height |-> Null]]
    /\ dim = DimIdle
    /\ img = ImgIdle
    /\ qs = QsIdle
    /\ batch = BatchIdle
    /\ pipe = PipeIdle

\* the input listener of a dimension input: resizeEnabled is set and the debounced
\* update is scheduled
DimensionInput ==
    /\ call.pc = "editor"
    /\ call.inputs < MaxInputs
    /\ ~call.settings.keepOriginalDimensions
    /\ \E changedField \in {"width", "height"}, value \in InputValues :
          call' = [call EXCEPT !.inputs = call.inputs + 1,
                               !.inputWidth = IF changedField = "width" THEN value
                                              ELSE call.inputWidth,
                               !.inputHeight = IF changedField = "height" THEN value
                                               ELSE call.inputHeight,
                               !.entered = value,
                               !.settings.resizeEnabled = TRUE,
                               !.pending = changedField]
    /\ UNCHANGED <<dim, img, qs, batch, pipe>>

\* 300 ms after the last input event the debounced updateDimensionsFromInput runs
DebouncedUpdateDimensions ==
    /\ call.pc = "editor"
    /\ call.pending # "none"
    /\ call' = [updateDimensionsFromInput(call, call.pending) EXCEPT !.pending = "none"]
    /\ UNCHANGED <<dim, img, qs, batch, pipe>>

\* a batch processes the image of the reference size (orientation 1): the size of
\* the canvas that processImage creates
ProcessReferenceImage ==
    /\ call.pc = "editor"
    /\ LET st == call.settings
           dims == IF st.resizeEnabled /\ ~st.keepOriginalDimensions
                   THEN calculateDimensions(call.sourceW, call.sourceH, st.width,
                                            st.height, st.unit, st.maintainAspectRatio)
                   ELSE [width |-> call.sourceW, height |-> call.sourceH]
       IN  call' = [call EXCEPT !.pc = "processed", !.target = dims]
    /\ UNCHANGED <<dim, img, qs, batch, pipe>>

NextEditor == DimensionInput \/ DebouncedUpdateDimensions \/ ProcessReferenceImage

SpecEditor == InitEditor /\ [][NextEditor]_vars

DimDone == dim.pc = "done"

Abs(x) == IF x >= 0 THEN x ELSE 0 - x

\* the requested width and height in pixels, as the aspect-ratio rules read them
RequestedWidthPx == PercentToPixels(dim.originalWidth, dim.targetWidth, dim.unit)

RequestedHeightPx == PercentToPixels(dim.originalHeight, dim.targetHeight, dim.unit)

OnlyWidthGiven ==
    dim.maintainAspectRatio /\ Truthy(RequestedWidthPx) /\ ~Truthy(RequestedHeightPx)

\* the value of each dimension before the minimum and the maximum are enforced
DimPlanned ==
    PlannedDimensions(dim.originalWidth, dim.originalHeight, dim.targetWidth,
                      dim.targetHeight, dim.unit, dim.maintainAspectRatio)

(***************************************************************************)
(* C1: for positive source dimensions and any non-negative or absent       *)
(* request, px or %, locked or not, the returned width and height are      *)
(* both >= 1 and both <= 16384.                                            *)
(***************************************************************************)
C1_OutputWithinLimits ==
    DimDone => /\ dim.width >= 1 /\ dim.height >= 1
               /\ dim.width <= 16384 /\ dim.height <= 16384

C4_AspectWithinOnePixel ==
    DimDone /\ OnlyWidthGiven
    => Abs(Round(dim.height * dim.originalWidth, dim.originalHeight) - RequestedWidthPx) <= 1

(***************************************************************************)
(* C4 amended: the same bound, for sources with sourceW <= 2 * sourceH     *)
(* and when no limit applies (w <= 16384 and w*sourceH/sourceW rounds to   *)
(* at most 16384).                                                         *)
(***************************************************************************)
C4_AspectWithinOnePixelNarrowSource ==
    DimDone /\ OnlyWidthGiven
            /\ dim.originalWidth <= 2 * dim.originalHeight
            /\ RequestedWidthPx <= 16384
            /\ 2 * RequestedWidthPx * dim.originalHeight < 32769 * dim.originalWidth
    => Abs(Round(dim.height * dim.originalWidth, dim.originalHeight) - RequestedWidthPx) <= 1

C4_Witness ==
    /\ DimDone /\ OnlyWidthGiven /\ dim.unit = "px"
    /\ dim.originalWidth = 3 /\ dim.originalHeight = 2 /\ dim.targetWidth = 1
    /\ dim.height = 1
    /\ Round(dim.height * dim.originalWidth, dim.originalHeight) = 2

(***************************************************************************)
(* C5: aspect ratio locked, px, both W > 0 and H > 0 requested: the        *)
(* returned dimensions fit inside the box, width <= W and height <= H.     *)
(***************************************************************************)
C5_FitsWithinBox ==
    DimDone /\ dim.maintainAspectRatio /\ dim.unit = "px"
            /\ Truthy(dim.targetWidth) /\ Truthy(dim.targetHeight)
    => dim.width <= dim.targetWidth /\ dim.height <= dim.targetHeight

(***************************************************************************)
(* C6: a dimension that the aspect-ratio rules compute as 0 from a         *)
(* positive other dimension is output as exactly 1 (no limit applying to   *)
(* the other dimension).                                                   *)
(***************************************************************************)
C6_ZeroClampedToOne ==
    DimDone /\ dim.maintainAspectRatio
    => /\ (Truthy(DimPlanned.width) /\ DimPlanned.height = 0 /\ DimPlanned.width <= 16384)
          => dim.height = 1
       /\ (Truthy(DimPlanned.height) /\ DimPlanned.width = 0 /\ DimPlanned.height <= 16384)
          => dim.width = 1

\* the canvas of processImage has been given its width and height
CanvasSized == img.pc = "done" \/ (img.pc = "error" /\ img.error = "CANVAS_UNSUPPORTED")

\* the file is read as a JPEG whose EXIF orientation is one of 5, 6, 7, 8
RotatedQuarterTurn ==
    /\ img.file.type \in {"image/jpeg", "image/jpg"}
    /\ img.exif.kind = "value"
    /\ img.exif.value \in 5..8

(***************************************************************************)
(* C2: whatever the resize settings, the canvas of processImage is at most *)
(* 16384 wide and at most 16384 high.                                      *)
(***************************************************************************)
C2_CanvasWithinMaximum ==
    CanvasSized => img.canvasWidth <= 16384 /\ img.canvasHeight <= 16384

(***************************************************************************)
(* C7: with resize disabled or keepOriginalDimensions set, the raster has  *)
(* the source's natural dimensions, swapped exactly for orientations 5..8; *)
(* when resizing, the planner receives the dimensions swapped the same way.*)
(***************************************************************************)
C7_OrientedDimensions ==
    img.pc = "done"
    => LET w == IF RotatedQuarterTurn THEN img.file.naturalHeight ELSE img.file.naturalWidth
           h == IF RotatedQuarterTurn THEN img.file.naturalWidth ELSE img.file.naturalHeight
       IN  IF img.settings.resizeEnabled /\ ~img.settings.keepOriginalDimensions
           THEN img.planned /\ img.plannerWidth = w /\ img.plannerHeight = h
           ELSE ~img.planned /\ img.canvasWidth = w /\ img.canvasHeight = h

C7_Witness ==
    /\ img.pc = "done" /\ ~img.planned
    /\ img.file.type = "image/jpeg" /\ img.exif = [kind |-> "value", value |-> 6]
    /\ img.file.naturalWidth = 4000 /\ img.file.naturalHeight = 3000
    /\ img.canvasWidth = 3000 /\ img.canvasHeight = 4000

\* the table of section 4.1: rotation and mirroring of each EXIF code
TableRotation(c) ==
    CASE c \in {1, 2} -> 0 [] c \in {3, 4} -> 180 [] c \in {5, 6} -> 90 [] c \in {7, 8} -> 270

TableMirrored(c) == c \in {2, 4, 5, 7}

(***************************************************************************)
(* C8: a JPEG whose EXIF yields a code c in 1..8 is drawn with the table's *)
(* transform for c; a non-JPEG, a failed extraction, an absent value, code *)
(* 0 or a code above 8 are drawn with code 1's transform; reading the      *)
(* orientation never ends the pipeline in an error.                        *)
(***************************************************************************)
C8_OrientationTotal ==
    /\ CanvasSized
       => LET c == IF /\ img.file.type \in {"image/jpeg", "image/jpg"}
                      /\ img.exif.kind = "value"
                      /\ img.exif.value \in 1..8
                   THEN img.exif.value ELSE 1
          IN  /\ img.transform.rotate = TableRotation(c)
              /\ img.transform.flip = TableMirrored(c)
    /\ img.exif.kind # "unread" => img.pc # "exif"
    /\ (img.pc = "error" /\ img.error # "CANVAS_UNSUPPORTED") => img.exif.kind = "unread"

C8_Witness ==
    /\ img.pc = "done"
    /\ img.file.type = "image/jpeg" /\ img.exif = [kind |-> "value", value |-> 9]
    /\ img.transform = [rotate |-> 0, flip |-> FALSE]

\* no encode of the current call gave a size inside the tolerance band
NoProbeWithinTolerance ==
    \A i \in 1..Len(qs.probes) :
       ~WithinTolerance(qs.probes[i].size, qs.targetSizeKB * 1024, qs.options.tolerancePct)

C10_QualityMonotoneInTarget ==
    Len(qs.returns) = 2 /\ qs.returns[1].targetSizeKB <= qs.returns[2].targetSizeKB
    => qs.returns[1].quality <= qs.returns[2].quality

C10_Witness ==
    /\ Len(qs.returns) = 2
    /\ qs.format # "png"
    /\ qs.returns[1].targetSizeKB < qs.returns[2].targetSizeKB
    /\ qs.returns[1].quality < qs.returns[2].quality
    /\ qs.returns[1].blob.size < qs.returns[2].blob.size

(***************************************************************************)
(* C11: when a call returns without any encode inside the tolerance band,  *)
(* the blob and quality returned are those of the encode of that call      *)
(* whose size is closest to the target.                                    *)
(***************************************************************************)
C11_ReturnsClosestProbe ==
    qs.pc = "returned" /\ NoProbeWithinTolerance
    => LET targetBytes == qs.targetSizeKB * 1024
       IN  /\ \E i \in 1..Len(qs.probes) :
                 qs.probes[i] = qs.result.blob /\ qs.probes[i].quality = qs.result.quality
           /\ \A i \in 1..Len(qs.probes) :
                 Abs(qs.result.blob.size - targetBytes) <= Abs(qs.probes[i].size - targetBytes)

\* the position in the queue of the items with the given id
QueuePositions(files, id) == {k \in 1..Len(files) : files[k].id = id}

\* run r returns from processAllFiles in this step
RunReturns(r) ==
    /\ r <= Len(batch.runs)
    /\ batch.runs[r].pc = "sleep500"
    /\ batch'.runs[r].pc = "returned"

(***************************************************************************)
(* C12: when processAllFiles returns, every item of its batch has a        *)
(* terminal status: error with a message for exactly the items whose       *)
(* pipeline failed, done for all others; every item of the batch was       *)
(* processed, whatever failed before it.                                   *)
(***************************************************************************)
C12_FailuresIsolated ==
    [][\A r \in 1..MaxRuns :
          RunReturns(r)
          => LET run == batch.runs[r]
             IN  /\ Len(run.rejected) = Len(run.files)
                 /\ \A k \in 1..Len(run.files) :
                       \A j \in QueuePositions(batch'.files, run.files[k]) :
                          IF run.rejected[k]
                          THEN /\ batch'.files[j].status = "error"
                               /\ batch'.files[j].error # NoMessage
                          ELSE batch'.files[j].status = "done"]_vars

(***************************************************************************)
(* C13: whatever the user does, the status of a queue item changes only    *)
(* from pending to processing, from processing to done and from processing *)
(* to error; done and error never change again.                            *)
(***************************************************************************)
C13_StatusTransitions ==
    [][\A j \in 1..Len(batch.files) :
          \A k \in QueuePositions(batch'.files, batch.files[j].id) :
             \/ batch'.files[k].status = batch.files[j].status
             \/ <<batch.files[j].status, batch'.files[k].status>> \in
                   {<<"pending", "processing">>, <<"processing", "done">>,
                    <<"processing", "error">>}]_vars

(***************************************************************************)
(* C14: at most one queue item is processing, and no pipeline starts       *)
(* before the pipeline started before it has ended: at most one call of    *)
(* processSingleFile is in flight.                                         *)
(***************************************************************************)
C14_OnePipelineAtATime ==
    /\ Cardinality({k \in 1..Len(batch.files) : batch.files[k].status = "processing"}) <= 1
    /\ Cardinality({r \in 1..Len(batch.runs) :
                       batch.runs[r].pc = "processSingleFile"}) <= 1

(***************************************************************************)
(* C15: the results a returned run has handed to setProcessedResults and   *)
(* updateDownloadResults hold one record per file of the batch, in the     *)
(* order of the batch, failed files included.                              *)
(***************************************************************************)
C15_OneRecordPerInput ==
    \A r \in 1..Len(batch.runs) :
       batch.runs[r].pc = "returned"
       => LET run == batch.runs[r]
          IN  /\ Len(run.results) = Len(run.files)
              /\ \A k \in 1..Len(run.results) : run.results[k].file = run.files[k]

\* the name without its last extension: what precedes the dot that no dot follows
NameWithoutLastExtension(name) ==
    IF \A k \in 1..Len(name) : name[k] # "."
    THEN name
    ELSE LET k == CHOOSE d \in 1..Len(name) :
                     name[d] = "." /\ \A j \in (d + 1)..Len(name) : name[j] # "."
         IN  [j \in 1..(k - 1) |-> name[j]]

(***************************************************************************)
(* C16: for a format token among jpeg, jpg, png, webp and gif the output   *)
(* name is the name without its last extension, then '_optimized.', then   *)
(* 'jpg' for jpeg and the token itself otherwise; createResultObject and   *)
(* generateOutputFilename give the same name.                              *)
(***************************************************************************)
C16_OutputName ==
    call.format \in {"jpeg", "jpg", "png", "webp", "gif"}
    => LET ext == IF call.format = "jpeg" THEN "jpg" ELSE call.format
           name == NameWithoutLastExtension(call.originalName) \o <<"_optimized.", ext>>
       IN  /\ "createResultObject" \in call.applied => call.result.newName = name
           /\ "generateOutputFilename" \in call.applied => call.outputFilename = name

C16_Witness ==
    /\ call.applied = {"createResultObject", "generateOutputFilename", "calculateSavings"}
    /\ call.originalName = <<"a", ".", "a", ".", "a">>
    /\ call.format = "jpeg"
    /\ call.result.newName = <<"a", ".", "a", "_optimized.", "jpg">>
    /\ call.outputFilename = <<"a", ".", "a", "_optimized.", "jpg">>

(***************************************************************************)
(* C17: the savings percentage of createResultObject and of                *)
(* calculateSavings is an integer of 0..100: 0 when newSize >= originalSize*)
(* or originalSize = 0, round((originalSize - newSize) / originalSize *    *)
(* 100) otherwise; the two functions agree.                                *)
(***************************************************************************)
C17_SavingsPercentage ==
    LET expected == IF call.newSize >= call.originalSize \/ call.originalSize = 0
                    THEN 0
                    ELSE Round((call.originalSize - call.newSize) * 100, call.originalSize)
    IN  /\ expected \in 0..100
        /\ "createResultObject" \in call.applied => call.result.savings = expected
        /\ "calculateSavings" \in call.applied => call.savings = expected

C17_Witness ==
    /\ call.applied = {"createResultObject", "calculateSavings"}
    /\ call.originalSize = 8 /\ call.newSize = 7
    /\ call.result.savings = 13 /\ call.savings = 13

(***************************************************************************)
(* C18: in processSingleFile with a jpeg target, a raster with transparent *)
(* pixels is composited on white before its first jpeg encode: no jpeg     *)
(* encode is issued for a raster that still has transparent pixels.        *)
(***************************************************************************)
C18_CompositedBeforeJpegEncode ==
    pipe.caller = "processSingleFile"
    => \A k \in 1..Len(pipe.encodes) :
          pipe.encodes[k].mimeType = "image/jpeg" => ~pipe.encodes[k].hasTransparency

(***************************************************************************)
(* C19: on a host that cannot encode webp, neither processSingleFile (with *)
(* format webp or unset) nor autoOptimize issues a webp encode or returns  *)
(* a result labelled webp.                                                 *)
(***************************************************************************)
C19_NoWebpWithoutSupport ==
    ~pipe.host.webp
    => /\ \A k \in 1..Len(pipe.encodes) : pipe.encodes[k].mimeType # "image/webp"
       /\ pipe.pc = "returned" => pipe.result.format # "webp"

(***************************************************************************)
(* C20: for every integer quality setting q, each of the four encoder      *)
(* entry points hands max(0.1, min(1, q/100)) to the encoder, a value of   *)
(* [0.1, 1.0].                                                             *)
(***************************************************************************)
C20_NormalizedQuality ==
    call.pc = "encoding"
    => /\ call.normalizedQuality = (IF call.quality < 10 THEN 10
                                    ELSE IF call.quality > 100 THEN 100
                                    ELSE call.quality)
       /\ 10 <= call.normalizedQuality /\ call.normalizedQuality <= 100

C20_Witness ==
    /\ call.pc = "encoding"
    /\ call.entry = "canvasToBlob"
    /\ call.quality = 0
    /\ call.normalizedQuality = 10

\* the encodes made by the iterations of the loop of the current call
LoopProbes == IF qs.format = "png" \/ qs.pc = "threw" THEN 0 ELSE qs.iterations

(***************************************************************************)
(* C21: each iteration encodes at mid = round((low+high)/2), a quality of  *)
(* the current [low, high]; an encode inside the tolerance band is         *)
(* returned at once with quality mid; a size above the target puts every   *)
(* later probe strictly below mid, a size below it strictly above mid; no  *)
(* quality is probed twice in one call.                                    *)
(***************************************************************************)
C21_ProbesNarrow ==
    qs.pc \in {"loop", "returned"}
    => LET targetBytes == qs.targetSizeKB * 1024
           tooBig(i) == qs.probes[i].size > targetBytes
       IN  /\ LoopProbes <= Len(qs.probes)
           /\ \A i \in 1..LoopProbes :
                 /\ qs.options.minQuality <= qs.probes[i].quality
                 /\ qs.probes[i].quality <= qs.options.maxQuality
                 /\ WithinTolerance(qs.probes[i].size, targetBytes, qs.options.tolerancePct)
                    => /\ i = LoopProbes /\ qs.pc = "returned"
                       /\ qs.result.blob = qs.probes[i]
                       /\ qs.result.quality = qs.probes[i].quality
                       /\ qs.result.iterations = i
                 /\ \A j \in (i + 1)..LoopProbes :
                       /\ qs.probes[j].quality # qs.probes[i].quality
                       /\ IF tooBig(i)
                          THEN qs.probes[j].quality < qs.probes[i].quality
                          ELSE qs.probes[j].quality > qs.probes[i].quality
                 /\ qs.pc = "loop"
                    => IF tooBig(i) THEN qs.high < qs.probes[i].quality
                                    ELSE qs.low > qs.probes[i].quality
           /\ (qs.pc = "loop" /\ qs.low <= qs.high)
              => /\ qs.low <= Midpoint(qs.low, qs.high)
                 /\ Midpoint(qs.low, qs.high) <= qs.high

C21_Witness ==
    /\ qs.pc = "returned" /\ qs.format = "jpeg"
    /\ qs.options.minQuality = 10 /\ qs.options.maxQuality = 95
    /\ qs.options.tolerancePct = 10
    /\ qs.targetSizeKB = 1
    /\ Len(qs.probes) = 3
    /\ qs.probes[1].quality = 53 /\ qs.probes[1].size > 1024
    /\ qs.probes[2].quality = 31 /\ qs.probes[2].size < 1024
    /\ qs.probes[3].quality = 42 /\ qs.probes[3].size = 1024
    /\ qs.result.quality = 42 /\ qs.result.blob = qs.probes[3]

(***************************************************************************)
(* C22: for every average variance and colour count that analyzeImage      *)
(* computes, isPhoto and isGraphic are never both true; for some inputs    *)
(* both are false.                                                         *)
(***************************************************************************)
C22_NotPhotoAndGraphic ==
    call.pc = "analyzed" => ~(call.isPhoto /\ call.isGraphic)

C22_Witness ==
    /\ call.pc = "analyzed"
    /\ call.pixelCount = 2000 /\ call.totalVariance = 50000 /\ call.colorCount = 2000
    /\ ~call.isPhoto /\ ~call.isGraphic

\* step 4 has failed: the library did not load, or both of its calls rejected
CompressionFailed == pipe.compressionError # "none"

ConversionRan ==
    \E k \in 1..Len(pipe.encodes) : pipe.encodes[k].by = "convertFormat"

(***************************************************************************)
(* C27: the blob of every result that processSingleFile returns has the    *)
(* type getMimeType(settings.format || 'webp'), whatever type the canvas   *)
(* encode or the compression returned; and convertFormat has run exactly   *)
(* when the blob after step 4 had another type than that.                  *)
(***************************************************************************)
C27_ResultHasTargetMime ==
    /\ (pipe.caller = "processSingleFile"
        /\ pipe.pc \in {"createImageFromBlob", "convertFormat"})
       => pipe.blob.type # pipe.targetMime
    /\ (pipe.caller = "processSingleFile" /\ pipe.pc = "returned")
       => /\ pipe.result.blob.type = getMimeType(TargetFormat(pipe.settings))
          /\ ~ConversionRan => pipe.blob.type = pipe.targetMime

\* the options let the loop of findOptimalQuality run at least once
LoopRuns == qs.options.minQuality <= qs.options.maxQuality /\ qs.options.maxIterations >= 1

\* "equals the number of encodes and is at least 1", for every choice of options
C28_IterationsCountEncodes ==
    qs.pc = "returned"
    => /\ qs.result.iterations = qs.encodes
       /\ qs.result.iterations >= 1
       /\ qs.format = "png"
          => qs.encodes = 1 /\ qs.result.quality = 100 /\ qs.result.iterations = 1

(***************************************************************************)
(* C28: the iterations value that findOptimalQuality returns is the number *)
(* of encode calls it made and is at least 1 whenever its loop runs at     *)
(* least once (minQuality <= maxQuality and maxIterations >= 1); when the  *)
(* loop cannot run it is 0 and one encode was made; for png exactly one    *)
(* encode is made, at quality 1, and quality 100, iterations 1 are         *)
(* returned.                                                               *)
(***************************************************************************)
C28_IterationsCountLoopEncodes ==
    qs.pc = "returned"
    => /\ Len(qs.probes) = qs.encodes
       /\ IF qs.format = "png"
          THEN /\ qs.encodes = 1 /\ qs.probes[1].quality = 100
               /\ qs.result.quality = 100 /\ qs.result.iterations = 1
          ELSE IF LoopRuns
          THEN qs.result.iterations = qs.encodes /\ qs.result.iterations >= 1
          ELSE qs.result.iterations = 0 /\ qs.encodes = 1

C28_Witness ==
    /\ qs.pc = "returned" /\ qs.format # "png" /\ qs.options = DefaultOptions
    /\ qs.result.iterations = 3 /\ qs.encodes = 3

\* the call was made with the default minQuality, maxQuality and maxIterations
DefaultSearch ==
    /\ qs.options.minQuality = DefaultOptions.minQuality
    /\ qs.options.maxQuality = DefaultOptions.maxQuality
    /\ qs.options.maxIterations = DefaultOptions.maxIterations

InBand(size) ==
    WithinTolerance(size, qs.targetSizeKB * 1024, qs.options.tolerancePct)

\* some quality of the range can have an in-band size: the encoder, whose sizes
\* are known at the probed qualities only, can be one that has such a quality
InBandQualityExists ==
    \E q \in qs.options.minQuality..qs.options.maxQuality :
       \E sz \in EncodedSizes(qs.image, q) : InBand(sz)

(***************************************************************************)
(* C29: on an encoder whose size is non-decreasing in quality, a call of   *)
(* findOptimalQuality with the default bounds 10..95 and maxIterations 10  *)
(* for jpeg or webp returns an in-band blob whenever some integer quality  *)
(* of 10..95 gives an in-band size.                                        *)
(***************************************************************************)
C29_FindsInBandQuality ==
    (qs.pc = "returned" /\ qs.format # "png" /\ qs.image.monotone /\ DefaultSearch
     /\ InBandQualityExists)
    => InBand(qs.result.blob.size)

C29_Witness ==
    /\ qs.pc = "returned" /\ qs.format # "png" /\ qs.image.monotone /\ DefaultSearch
    /\ qs.options.tolerancePct = 0
    /\ InBand(qs.result.blob.size)
    /\ qs.result.iterations >= 4
    /\ \E i, j \in 1..Len(qs.probes) :
          /\ qs.probes[i].size > qs.targetSizeKB * 1024
          /\ qs.probes[j].size < qs.targetSizeKB * 1024

\* the number of times URL.revokeObjectURL was called with the URL
RevokeCount(url) ==
    Cardinality({k \in 1..Len(call.revoked) : call.revoked[k] = url})

(***************************************************************************)
(* C24: the object URL that a call of loadImage or createImageFromBlob     *)
(* creates is revoked exactly once, and before the promise of the call is  *)
(* settled, whether the image loads or fails; no URL of a settled decode   *)
(* is left unrevoked, and no URL is revoked while its decode is pending.   *)
(***************************************************************************)
C24_UrlRevokedOnceBeforeSettle ==
    \A i \in 1..Len(call.decodes) :
       LET d == call.decodes[i]
       IN  /\ d.promise = "pending"
              => d.url \in call.live /\ RevokeCount(d.url) = 0
           /\ d.promise = "fulfilled"
              => d.log = <<"createObjectURL", "revokeObjectURL", "resolve">>
           /\ d.promise = "rejected"
              => d.log = <<"createObjectURL", "revokeObjectURL", "reject">>
           /\ d.promise # "pending"
              => d.url \notin call.live /\ RevokeCount(d.url) = 1
           /\ \A j \in 1..Len(call.decodes) : j # i => call.decodes[j].url # d.url

C24_Witness ==
    /\ Len(call.decodes) = MaxDecodes
    /\ \E i, j \in 1..Len(call.decodes) :
          /\ call.decodes[i].fn = "loadImage"
          /\ call.decodes[i].promise = "fulfilled"
          /\ call.decodes[j].fn = "createImageFromBlob"
          /\ call.decodes[j].promise = "rejected"
    /\ call.live = {} /\ Len(call.revoked) = MaxDecodes

(***************************************************************************)
(* C26: for each of the 8 orientations and every canvas size w x h, the    *)
(* transform set by applyExifTransform maps the rectangle that drawImage   *)
(* draws, (0,0)-(drawWidth,drawHeight) with the two swapped for the        *)
(* rotations by 90 and 270, exactly onto the canvas [0,w] x [0,h]: its     *)
(* corners go to the corners of the canvas and its points cover the        *)
(* canvas, none falling outside.                                           *)
(***************************************************************************)
C26_DrawRectangleCoversCanvas ==
    call.pc = "drawn"
    => /\ call.drawn = {<<2 * x, 2 * y>> : x \in 0..call.targetWidth,
                                          y \in 0..call.targetHeight}
       /\ Cardinality(call.drawn) = (call.drawWidth + 1) * (call.drawHeight + 1)

C26_Witness ==
    /\ call.pc = "drawn"
    /\ call.transform = [rotate |-> 90, flip |-> TRUE]
    /\ call.targetWidth = 3 /\ call.targetHeight = 1
    /\ call.drawWidth = 1 /\ call.drawHeight = 3
    /\ <<6, 2>> \in call.drawn

(***************************************************************************)
(* C30: with the unit '%' and the aspect lock on, after the user entered P *)
(* in a dimension input and the update ran, a batch resizes the image of   *)
(* the reference size sourceW x sourceH to                                 *)
(* round(sourceW * P / 100) x round(sourceH * P / 100).                    *)
(***************************************************************************)
C30_PercentAppliedOnce ==
    (/\ call.pc = "processed"
     /\ call.settings.unit = "%" /\ call.settings.maintainAspectRatio
     /\ call.inputs > 0 /\ call.pending = "none" /\ Truthy(call.entered))
    => /\ call.target.width = Round(call.sourceW * call.entered, 100)
       /\ call.target.height = Round(call.sourceH * call.entered, 100)

\* run r exists
Started(r) == r <= Len(batch.runs)

\* processAllFiles has just been called with a non-empty queue: run r awaits the
\* pipeline of its first item
Starting(r) ==
    Started(r) /\ batch.runs[r].pc = "processSingleFile" /\ batch.runs[r].i = 0

\* run r has given item k of its batch a terminal status, or the item has left the queue
ItemSettled(r, k) ==
    /\ Started(r)
    /\ k <= Len(batch.runs[r].rejected)
    /\ \A j \in 1..Len(batch.files) :
          batch.files[j].id = batch.runs[r].files[k]
          => batch.files[j].status \in {"done", "error"}

\* run r has gone through its loop whatever items failed, has reported 100 and ended
Completed(r) ==
    /\ Started(r)
    /\ batch.runs[r].pc = "returned"
    /\ Len(batch.runs[r].rejected) = Len(batch.runs[r].files)
    /\ ~batch.isProcessing
    /\ batch.progress = 100

\* run r has left its loop and set the progress bar to 100
ReportedComplete(r) ==
    Started(r) /\ batch.runs[r].pc = "sleep500" /\ batch.progressBar = 100

(***************************************************************************)
(* C25: when every awaited step settles, every call of processAllFiles on  *)
(* a non-empty queue completes: each item of its batch reaches done or     *)
(* error, the progress bar is set to 100, and the call returns with        *)
(* processing.isProcessing false and processing.progress 100, whatever     *)
(* items fail.                                                             *)
(***************************************************************************)
C25_BatchCompletes ==
    \A r \in 1..MaxRuns :
       /\ Starting(r) ~> Completed(r)
       /\ Starting(r) ~> ReportedComplete(r)
       /\ \A k \in 1..MaxFiles :
             (Starting(r) /\ k <= Len(batch.runs[r].files)) ~> ItemSettled(r, k)

C25_Witness ==
    /\ Completed(1)
    /\ Len(batch.runs[1].files) = MaxFiles
    /\ batch.runs[1].rejected = <<TRUE, FALSE>>
    /\ Len(batch.runs) = 1
====
